---- MODULE Spec2Model ----
(***************************************************************************)
(* The indexed task store of GN_Tasks_JS: class TaskRepository of          *)
(* src/api/server.js.  A JavaScript Map or Set iterates in insertion       *)
(* order, so every Map and Set of the class is a duplicate-free sequence.  *)
(* Strings that are searched are sequences of one-character strings; the   *)
(* sample records keep the first word of their title and description.      *)
(* Time is counted in days: an ISO timestamp is the number of days it      *)
(* stands for, and two timestamps of the same format compare as strings    *)
(* the way their instants compare.                                         *)
(***************************************************************************)
EXTENDS Integers, Sequences, FiniteSets, TLC

VARIABLES tasks, tasksByStatus, tasksByPriority, tasksByTag,
          now, nextId, ret, lastOp, resultAlias, inputAlias, pc, pending, steps,
          client

vars == <<tasks, tasksByStatus, tasksByPriority, tasksByTag,
          now, nextId, ret, lastOp, resultAlias, inputAlias, pc, pending, steps,
          client>>

store == <<tasks, tasksByStatus, tasksByPriority, tasksByTag>>

(* ---------------- bounds ------------------------------------------------ *)

\* number of store-changing steps (mutators, clock ticks, caller writes)
MaxSteps == 2

\* number of deleteTask calls of the client
MaxCalls == 2

(* ---------------- program constants ------------------------------------- *)

Statuses == {"todo", "in_progress", "completed"}
Priorities == {"low", "medium", "high"}

\* JavaScript null as the value of dueDate
Null == -1

\* JavaScript null as the result of findById, update and delete
NotFound == [null |-> TRUE]

\* 24 * 60 * 60 * 1000 ms
Day == 1

DefaultLimit == 50
MaxLimit == 100

(* ---------------- strings ----------------------------------------------- *)

SeqToSet(s) == { s[i] : i \in 1..Len(s) }

UpperCase == <<"A","B","C","D","E","F","G","H","I","J","K","L","M",
               "N","O","P","Q","R","S","T","U","V","W","X","Y","Z">>
LowerCase == <<"a","b","c","d","e","f","g","h","i","j","k","l","m",
               "n","o","p","q","r","s","t","u","v","w","x","y","z">>

LowerTable ==
  [c \in SeqToSet(UpperCase) |-> LowerCase[CHOOSE i \in 1..26 : UpperCase[i] = c]]

\* the lower-case form of one character
LowerChar(c) == IF c \in DOMAIN LowerTable THEN LowerTable[c] ELSE c

\* String.prototype.toLowerCase
toLowerCase(s) == [i \in 1..Len(s) |-> LowerChar(s[i])]

\* String.prototype.includes
includes(s, t) ==
  \E k \in 0..(Len(s) - Len(t)) : \A i \in 1..Len(t) : s[k + i] = t[i]

(* ---------------- Map and Set ------------------------------------------- *)

Has(s, x) == \E i \in 1..Len(s) : s[i] = x

\* Set.prototype.add
SetAdd(s, x) == IF Has(s, x) THEN s ELSE Append(s, x)

\* Set.prototype.delete
SetDelete(s, x) == SelectSeq(s, LAMBDA y : y # x)

\* Map.prototype.has / get / set / delete of this.tasks (key: the record id)
TasksHas(m, id) == \E i \in 1..Len(m) : m[i].id = id
TasksGet(m, id) == m[CHOOSE i \in 1..Len(m) : m[i].id = id]
TasksSet(m, task) ==
  IF TasksHas(m, task.id)
  THEN [i \in 1..Len(m) |-> IF m[i].id = task.id THEN task ELSE m[i]]
  ELSE Append(m, task)
\* Map.prototype.delete that deletes nothing
TasksDeleteNothing(m, id) == m
TasksDelete(m, id) == SelectSeq(m, LAMBDA t : t.id # id)

\* Map.prototype.has / get / set / delete of this.tasksByTag (key: the tag)
TagHas(m, tag) == \E i \in 1..Len(m) : m[i].tag = tag
TagGet(m, tag) == m[CHOOSE i \in 1..Len(m) : m[i].tag = tag].ids
TagSet(m, tag, ids) ==
  IF TagHas(m, tag)
  THEN [i \in 1..Len(m) |-> IF m[i].tag = tag THEN [tag |-> tag, ids |-> ids] ELSE m[i]]
  ELSE Append(m, [tag |-> tag, ids |-> ids])
TagDelete(m, tag) == SelectSeq(m, LAMBDA e : e.tag # tag)

(* ---------------- the repository object --------------------------------- *)

This == [tasks |-> tasks, tasksByStatus |-> tasksByStatus,
         tasksByPriority |-> tasksByPriority, tasksByTag |-> tasksByTag]

EmptyRepo ==
  [tasks |-> <<>>,
   tasksByStatus |-> [s \in Statuses |-> <<>>],
   tasksByPriority |-> [p \in Priorities |-> <<>>],
   tasksByTag |-> <<>>]

RECURSIVE AddTags(_, _, _)
AddTags(byTag, tags, id) ==
  IF tags = <<>> THEN byTag
  ELSE LET tag == Head(tags)
           m1 == IF TagHas(byTag, tag) THEN byTag ELSE TagSet(byTag, tag, <<>>)
       IN AddTags(TagSet(m1, tag, SetAdd(TagGet(m1, tag), id)), Tail(tags), id)

\* the tags loop of _removeTask without the clean-up of empty tag sets
RECURSIVE RemoveTagsKeepsEmpty(_, _, _)
RemoveTagsKeepsEmpty(byTag, tags, id) ==
  IF tags = <<>> THEN byTag
  ELSE LET tag == Head(tags)
       IN IF TagHas(byTag, tag)
          THEN RemoveTagsKeepsEmpty(TagSet(byTag, tag, SetDelete(TagGet(byTag, tag), id)),
                                    Tail(tags), id)
          ELSE RemoveTagsKeepsEmpty(byTag, Tail(tags), id)

\* the tags loop of _removeTask
RECURSIVE RemoveTags(_, _, _)
RemoveTags(byTag, tags, id) ==
  IF tags = <<>> THEN byTag
  ELSE LET tag == Head(tags)
       IN IF TagHas(byTag, tag)
          THEN LET tagSet == SetDelete(TagGet(byTag, tag), id)
               IN RemoveTags(IF Len(tagSet) = 0 THEN TagDelete(byTag, tag)
                                                ELSE TagSet(byTag, tag, tagSet),
                             Tail(tags), id)
          ELSE RemoveTags(byTag, Tail(tags), id)

\* a value that is not an array in the place of tags (the string 'urgent'):
\* a function on {0}, which differs from every array
NotAnArray == [i \in {0} |-> "urgent"]

\* Array.isArray(v), also: v has a forEach method
IsArray(v) == 0 \notin DOMAIN v

\* the TypeError of a method call on undefined (Map.get of an unknown key)
\* or of a call of a method the value does not have (forEach of a string)
TypeError == [error |-> "TypeError"]

\* _addTask(task) throws: no bucket for the status or for the priority, or
\* tags without forEach
AddThrows(r, task) ==
  \/ task.status \notin DOMAIN r.tasksByStatus
  \/ task.priority \notin DOMAIN r.tasksByPriority
  \/ ~IsArray(task.tags)

\* _addTask(task): the repository when it returns or throws
AddTask(r, task) ==
  LET r1 == [r EXCEPT !.tasks = TasksSet(r.tasks, task)]
      r2 == [r1 EXCEPT !.tasksByStatus[task.status] = SetAdd(@, task.id)]
      r3 == [r2 EXCEPT !.tasksByPriority[task.priority] = SetAdd(@, task.id)]
  IN IF task.status \notin DOMAIN r.tasksByStatus THEN r1
     ELSE IF task.priority \notin DOMAIN r.tasksByPriority THEN r2
     ELSE IF ~IsArray(task.tags) THEN r3
     ELSE [r3 EXCEPT !.tasksByTag = AddTags(r.tasksByTag, task.tags, task.id)]

\* _removeTask that leaves the id in its status bucket
RemoveTaskKeepsStatus(r, task) ==
  [tasks |-> TasksDelete(r.tasks, task.id),
   tasksByStatus |-> r.tasksByStatus,
   tasksByPriority |-> [r.tasksByPriority EXCEPT ![task.priority] = SetDelete(@, task.id)],
   tasksByTag |-> RemoveTags(r.tasksByTag, task.tags, task.id)]

\* _removeTask(task) throws, as _addTask does
RemoveThrows(r, task) ==
  \/ task.status \notin DOMAIN r.tasksByStatus
  \/ task.priority \notin DOMAIN r.tasksByPriority
  \/ ~IsArray(task.tags)

\* _removeTask(task): the repository when it returns or throws
RemoveTask(r, task) ==
  LET r1 == [r EXCEPT !.tasks = TasksDelete(r.tasks, task.id)]
      r2 == [r1 EXCEPT !.tasksByStatus[task.status] = SetDelete(@, task.id)]
      r3 == [r2 EXCEPT !.tasksByPriority[task.priority] = SetDelete(@, task.id)]
  IN IF task.status \notin DOMAIN r.tasksByStatus THEN r1
     ELSE IF task.priority \notin DOMAIN r.tasksByPriority THEN r2
     ELSE IF ~IsArray(task.tags) THEN r3
     ELSE [r3 EXCEPT !.tasksByTag = RemoveTags(r.tasksByTag, task.tags, task.id)]

\* _updateTask(oldTask, newTask) throws
UpdateThrows(r, oldTask, newTask) ==
  RemoveThrows(r, oldTask) \/ AddThrows(RemoveTask(r, oldTask), newTask)

\* _updateTask(oldTask, newTask): the repository when it returns or throws
UpdateTask(r, oldTask, newTask) ==
  IF RemoveThrows(r, oldTask) THEN RemoveTask(r, oldTask)
  ELSE AddTask(RemoveTask(r, oldTask), newTask)

SampleTasks(t) ==
  << [id |-> 1, title |-> <<"S","e","t">>,
      description |-> <<"I","n","i","t","i","a","l","i","z","e">>,
      status |-> "completed", priority |-> "high", dueDate |-> t - 2 * Day,
      tags |-> <<"setup", "infrastructure">>,
      createdAt |-> t - 3 * Day, updatedAt |-> t - 2 * Day],
     [id |-> 2, title |-> <<"I","m","p","l","e","m","e","n","t">>,
      description |-> <<"C","r","e","a","t","e">>,
      status |-> "in_progress", priority |-> "high", dueDate |-> t + Day,
      tags |-> <<"api", "backend">>,
      createdAt |-> t - Day, updatedAt |-> t],
     [id |-> 3, title |-> <<"W","r","i","t","e">>,
      description |-> <<"A","d","d">>,
      status |-> "todo", priority |-> "medium", dueDate |-> t + 3 * Day,
      tags |-> <<"testing", "quality">>,
      createdAt |-> t, updatedAt |-> t] >>

RECURSIVE AddAll(_, _)
AddAll(r, ts) == IF ts = <<>> THEN r ELSE AddAll(AddTask(r, Head(ts)), Tail(ts))

\* new TaskRepository() at time t
Constructed(t) == AddAll(EmptyRepo, SampleTasks(t))

(* ---------------- findAll ----------------------------------------------- *)

\* _intersectSets that returns the smaller set without probing the larger
intersectSetsNoProbe(setA, setB) ==
  IF Len(setA) <= Len(setB) THEN setA ELSE setB

\* _intersectSets(setA, setB): iterate the smaller set, probe the larger
intersectSets(setA, setB) ==
  LET smaller == IF Len(setA) <= Len(setB) THEN setA ELSE setB
      larger == IF Len(setA) <= Len(setB) THEN setB ELSE setA
  IN SelectSeq(smaller, LAMBDA item : Has(larger, item))

TaskKeys(m) == [i \in 1..Len(m) |-> m[i].id]

\* the tags loop that skips a tag without a bucket instead of giving up
RECURSIVE NarrowByTagsSkipsUnknown(_, _, _)
NarrowByTagsSkipsUnknown(taskIds, filterTags, byTag) ==
  IF filterTags = <<>> THEN taskIds
  ELSE IF TagHas(byTag, Head(filterTags))
       THEN NarrowByTagsSkipsUnknown(intersectSets(taskIds, TagGet(byTag, Head(filterTags))),
                                     Tail(filterTags), byTag)
       ELSE NarrowByTagsSkipsUnknown(taskIds, Tail(filterTags), byTag)

\* the tags loop of findAll: one intersection per requested tag
RECURSIVE NarrowByTags(_, _, _)
NarrowByTags(taskIds, filterTags, byTag) ==
  IF filterTags = <<>> THEN taskIds
  ELSE IF TagHas(byTag, Head(filterTags))
       THEN NarrowByTags(intersectSets(taskIds, TagGet(byTag, Head(filterTags))),
                         Tail(filterTags), byTag)
       ELSE <<>>

\* the ids left after the index steps of findAll
Narrowed(r, filters) ==
  LET ids0 == TaskKeys(r.tasks)
      ids1 == IF filters.status # ""
              THEN intersectSets(ids0, IF filters.status \in DOMAIN r.tasksByStatus
                                       THEN r.tasksByStatus[filters.status] ELSE <<>>)
              ELSE ids0
      ids2 == IF filters.priority # ""
              THEN intersectSets(ids1, IF filters.priority \in DOMAIN r.tasksByPriority
                                       THEN r.tasksByPriority[filters.priority] ELSE <<>>)
              ELSE ids1
  IN IF Len(filters.tags) > 0 THEN NarrowByTags(ids2, filters.tags, r.tasksByTag) ELSE ids2

MatchesSearch(task, search) ==
  LET searchTerm == toLowerCase(search)
  IN \/ includes(toLowerCase(task.title), searchTerm)
     \/ includes(toLowerCase(task.description), searchTerm)

\* the overdue test without the look at the status
IsOverdueCountsCompleted(task, t) ==
  /\ task.dueDate # Null
  /\ task.dueDate < t

\* task.dueDate && task.dueDate < now && task.status !== 'completed'
IsOverdue(task, t) ==
  /\ task.dueDate # Null
  /\ task.dueDate < t
  /\ task.status # "completed"

\* the records left after the search and overdue passes of findAll
Filtered(r, filters, t) ==
  LET ids == Narrowed(r, filters)
      all == [i \in 1..Len(ids) |-> TasksGet(r.tasks, ids[i])]
      searched == IF filters.search # <<>>
                  THEN SelectSeq(all, LAMBDA task : MatchesSearch(task, filters.search))
                  ELSE all
  IN IF filters.overdue = TRUE
     THEN SelectSeq(searched, LAMBDA task : IsOverdue(task, t))
     ELSE searched

RankTable == [c \in SeqToSet(LowerCase) |-> CHOOSE i \in 1..26 : LowerCase[i] = c]

\* the alphabetical position of a letter, 0 for any other character
CharRank(c) == IF LowerChar(c) \in DOMAIN RankTable THEN RankTable[LowerChar(c)] ELSE 0

\* -1, 0 or 1: a and b letter by letter, ignoring case
RECURSIVE ComparePrimary(_, _)
ComparePrimary(a, b) ==
  IF a = <<>> /\ b = <<>> THEN 0
  ELSE IF a = <<>> THEN -1
  ELSE IF b = <<>> THEN 1
  ELSE IF CharRank(Head(a)) < CharRank(Head(b)) THEN -1
  ELSE IF CharRank(Head(a)) > CharRank(Head(b)) THEN 1
  ELSE ComparePrimary(Tail(a), Tail(b))

\* -1, 0 or 1: at the first letter that differs in case, lower case is first
RECURSIVE CompareCase(_, _)
CompareCase(a, b) ==
  IF a = <<>> \/ b = <<>> THEN 0
  ELSE IF Head(a) = Head(b) THEN CompareCase(Tail(a), Tail(b))
  ELSE IF Head(a) = LowerChar(Head(a)) THEN -1 ELSE 1

\* the alphabetical position of the enum words of status and priority
WordRank(w) ==
  CASE w = "completed" -> 1
    [] w = "high" -> 2
    [] w = "in_progress" -> 3
    [] w = "low" -> 4
    [] w = "medium" -> 5
    [] w = "todo" -> 6
    [] OTHER -> 7

\* String.prototype.localeCompare
localeCompare(a, b, isWord) ==
  IF isWord
  THEN IF WordRank(a) < WordRank(b) THEN -1 ELSE IF WordRank(a) > WordRank(b) THEN 1 ELSE 0
  ELSE IF ComparePrimary(a, b) # 0 THEN ComparePrimary(a, b) ELSE CompareCase(a, b)

DateFields == {"createdAt", "updatedAt", "dueDate"}
WordFields == {"status", "priority"}
TextFields == {"title", "description"}

\* a[sortBy] == null
IsNullish(task, sortBy) ==
  \/ sortBy \notin DOMAIN task
  \/ sortBy = "dueDate" /\ task.dueDate = Null

\* _compareTasksForSort that puts a null value last whatever sortOrder is
compareTasksForSortNullLast(a, b, sortBy, sortOrder) ==
  IF IsNullish(a, sortBy) /\ IsNullish(b, sortBy) THEN 0
  ELSE IF IsNullish(a, sortBy) THEN 1
  ELSE IF IsNullish(b, sortBy) THEN -1
  ELSE LET comparison ==
             IF sortBy \in DateFields
             THEN (IF a[sortBy] < b[sortBy] THEN -1 ELSE IF a[sortBy] > b[sortBy] THEN 1 ELSE 0)
             ELSE IF sortBy \in WordFields THEN localeCompare(a[sortBy], b[sortBy], TRUE)
             ELSE IF sortBy \in TextFields THEN localeCompare(a[sortBy], b[sortBy], FALSE)
             ELSE 0
       IN IF sortOrder = "asc" THEN comparison ELSE 0 - comparison

\* _compareTasksForSort(a, b, sortBy, sortOrder)
compareTasksForSort(a, b, sortBy, sortOrder) ==
  IF IsNullish(a, sortBy) /\ IsNullish(b, sortBy) THEN 0
  ELSE IF IsNullish(a, sortBy) THEN (IF sortOrder = "asc" THEN 1 ELSE -1)
  ELSE IF IsNullish(b, sortBy) THEN (IF sortOrder = "asc" THEN -1 ELSE 1)
  ELSE LET comparison ==
             IF sortBy \in DateFields
             THEN (IF a[sortBy] < b[sortBy] THEN -1 ELSE IF a[sortBy] > b[sortBy] THEN 1 ELSE 0)
             ELSE IF sortBy \in WordFields THEN localeCompare(a[sortBy], b[sortBy], TRUE)
             ELSE IF sortBy \in TextFields THEN localeCompare(a[sortBy], b[sortBy], FALSE)
             ELSE 0
       IN IF sortOrder = "asc" THEN comparison ELSE 0 - comparison

\* the comparator findAll hands to Array.prototype.sort
Compare(a, b, filters) ==
  IF filters.sortBy # ""
  THEN compareTasksForSort(a, b, filters.sortBy,
                           IF filters.sortOrder = "undefined" THEN "asc" ELSE filters.sortOrder)
  ELSE b.updatedAt - a.updatedAt

\* Array.prototype.sort, which is stable: element i of ts goes behind the
\* elements that compare smaller and behind the equal ones that precede it
SortTasks(ts, filters) ==
  LET n == Len(ts)
      Before(j, i) ==
        \/ Compare(ts[j], ts[i], filters) < 0
        \/ Compare(ts[j], ts[i], filters) = 0 /\ j < i
      Position(i) == Cardinality({ j \in 1..n : j # i /\ Before(j, i) }) + 1
      Place(position) == [k \in 1..n |-> ts[CHOOSE i \in 1..n : position[i] = k]]
  IN Place([i \in 1..n |-> Position(i)])

\* a limit or offset argument: absent, a number, or text such as 'abc'
Absent == [kind |-> "absent", val |-> 0]
Num(n) == [kind |-> "num", val |-> n]
Text == [kind |-> "text", val |-> 0]

\* parseInt(x) || dflt
ParseIntOr(x, dflt) == IF x.kind = "num" /\ x.val # 0 THEN x.val ELSE dflt

Min(a, b) == IF a <= b THEN a ELSE b
Max(a, b) == IF a >= b THEN a ELSE b

\* Array.prototype.slice(start, end)
slice(arr, start, end) ==
  LET len == Len(arr)
      from == IF start < 0 THEN Max(len + start, 0) ELSE Min(start, len)
      to == IF end < 0 THEN Max(len + end, 0) ELSE Min(end, len)
  IN SubSeq(arr, from + 1, to)

\* parsePagination(query) of the request middleware
parsePagination(query) ==
  [limit |-> Min(Max(ParseIntOr(query.limit, DefaultLimit), 1), MaxLimit),
   offset |-> Max(ParseIntOr(query.offset, 0), 0)]

PageLimit(filters) == Min(ParseIntOr(filters.limit, DefaultLimit), MaxLimit)
PageOffset(filters) == Max(ParseIntOr(filters.offset, 0), 0)

\* the page cut as if offset counted from 1
PageFromOne(sorted, limit, offset) ==
  [tasks |-> slice(sorted, offset + 1, offset + limit),
   pagination |-> [total |-> Len(sorted), limit |-> limit, offset |-> offset,
                   hasMore |-> offset + limit < Len(sorted)]]

\* the return statement of findAll: tasks is the sorted array
Page(sorted, limit, offset) ==
  [tasks |-> slice(sorted, offset, offset + limit),
   pagination |-> [total |-> Len(sorted), limit |-> limit, offset |-> offset,
                   hasMore |-> offset + limit < Len(sorted)]]

\* the result of findAll(filters) on repository r at time t
FindAll(r, filters, t) ==
  Page(SortTasks(Filtered(r, filters, t), filters), PageLimit(filters), PageOffset(filters))

NoFilters ==
  [status |-> "", priority |-> "", tags |-> <<>>, search |-> <<>>, overdue |-> FALSE,
   sortBy |-> "", sortOrder |-> "undefined", limit |-> Absent, offset |-> Absent]

(* ---------------- getStats ---------------------------------------------- *)

\* Date.prototype.toDateString: the calendar day of an instant
toDateString(t) == t \div Day

TagCounts(byTag) == [i \in 1..Len(byTag) |-> [tag |-> byTag[i].tag, count |-> Len(byTag[i].ids)]]

\* stable sort by descending count
RECURSIVE InsertByCount(_, _)
InsertByCount(sorted, x) ==
  IF sorted = <<>> THEN <<x>>
  ELSE IF x.count - sorted[Len(sorted)].count <= 0 THEN Append(sorted, x)
  ELSE Append(InsertByCount(SubSeq(sorted, 1, Len(sorted) - 1), x), sorted[Len(sorted)])

RECURSIVE SortByCount(_)
SortByCount(cs) ==
  IF cs = <<>> THEN <<>>
  ELSE InsertByCount(SortByCount(SubSeq(cs, 1, Len(cs) - 1)), cs[Len(cs)])

PopularLimit == 5

\* _getPopularTags(limit)
getPopularTags(byTag, limit) == slice(SortByCount(TagCounts(byTag)), 0, limit)

RECURSIVE SumSizes(_)
SumSizes(byTag) == IF byTag = <<>> THEN 0 ELSE Len(Head(byTag).ids) + SumSizes(Tail(byTag))

\* getStats with tags.total as the number of ids in all tag sets
GetStatsSumsTagSets(r, t) ==
  [total |-> Len(r.tasks),
   byStatus |-> [s \in DOMAIN r.tasksByStatus |-> Len(r.tasksByStatus[s])],
   byPriority |-> [p \in DOMAIN r.tasksByPriority |-> Len(r.tasksByPriority[p])],
   tags |-> [total |-> SumSizes(r.tasksByTag),
             popular |-> getPopularTags(r.tasksByTag, PopularLimit)],
   overdue |-> Len(SelectSeq(r.tasks, LAMBDA task : IsOverdue(task, t))),
   completedToday |-> Len(SelectSeq(r.tasks, LAMBDA task :
                            /\ task.status = "completed"
                            /\ toDateString(task.updatedAt) = toDateString(t)))]

\* the result of getStats() on repository r at time t
GetStats(r, t) ==
  [total |-> Len(r.tasks),
   byStatus |-> [s \in DOMAIN r.tasksByStatus |-> Len(r.tasksByStatus[s])],
   byPriority |-> [p \in DOMAIN r.tasksByPriority |-> Len(r.tasksByPriority[p])],
   tags |-> [total |-> Len(r.tasksByTag),
             popular |-> getPopularTags(r.tasksByTag, PopularLimit)],
   overdue |-> Len(SelectSeq(r.tasks, LAMBDA task : IsOverdue(task, t))),
   completedToday |-> Len(SelectSeq(r.tasks, LAMBDA task :
                            /\ task.status = "completed"
                            /\ toDateString(task.updatedAt) = toDateString(t)))]

(* ---------------- inputs ------------------------------------------------ *)

\* the ids a caller can name: those uuidv4 has produced, and one it has not
Ids == 1..nextId

\* data[f] || default: falsy is the empty string of the field, or null
Get(data, f, falsy, default) ==
  IF f \in DOMAIN data /\ data[f] # falsy THEN data[f] ELSE default

CreateInputs ==
  { [title |-> <<"N","e","w">>],
    [title |-> <<"F","i","x">>, description |-> <<"A","p","i">>,
     status |-> "todo", priority |-> "high", dueDate |-> Day,
     tags |-> <<"urgent", "api">>] }

UpdateInputs ==
  { [status |-> "completed"],
    [title |-> <<"F","i","x">>],
    [priority |-> "low", dueDate |-> Null, tags |-> <<"urgent", "api">>] }

\* the ids findById is called with: a sample record and an id never produced
ReadIds == {1, nextId}

\* the filters findAll is called with
ReadFilters ==
  { [NoFilters EXCEPT !.limit = Num(2), !.offset = Num(1)],
    [NoFilters EXCEPT !.limit = Num(0 - 1), !.offset = Num(3)] }

(* ---------------- initial state ----------------------------------------- *)

NoOp == [op |-> "new", id |-> 0]
NoPending == [id |-> 0]

\* error: null, and the message deleteTask sets
NoError == "null"
DeleteError == "Failed to delete task"

\* initialState of the task context, and no deleteTask call under way
initialState ==
  [tasks |-> <<>>,
   error |-> NoError,
   pagination |-> [total |-> 0, limit |-> DefaultLimit, offset |-> 0, hasMore |-> FALSE],
   selectedTask |-> NotFound]

Init ==
  /\ client = [state |-> initialState, calls |-> {}, started |-> 0]
  /\ now = 3 * Day
  /\ tasks = Constructed(now).tasks
  /\ tasksByStatus = Constructed(now).tasksByStatus
  /\ tasksByPriority = Constructed(now).tasksByPriority
  /\ tasksByTag = Constructed(now).tasksByTag
  /\ nextId = Len(SampleTasks(now)) + 1
  /\ ret = NotFound
  /\ lastOp = NoOp
  /\ resultAlias = 0
  /\ inputAlias = 0
  /\ pc = "idle"
  /\ pending = NoPending
  /\ steps = 0

(* ---------------- operations -------------------------------------------- *)

SetRepo(r) ==
  /\ tasks' = r.tasks
  /\ tasksByStatus' = r.tasksByStatus
  /\ tasksByPriority' = r.tasksByPriority
  /\ tasksByTag' = r.tasksByTag

Budget ==
  /\ steps < MaxSteps
  /\ steps' = steps + 1

\* a handler that starts although update has not returned, as after an
\* await between the two steps of _updateTask
StartsAnyTime == TRUE

\* the event loop starts a handler only when no other one is running
CallStackEmpty == pc = "idle"

\* the task object of create with dueDate: null whatever taskData holds
NewTaskDropsDueDate(taskData, id, t) ==
  [id |-> id,
   title |-> taskData.title,
   description |-> Get(taskData, "description", <<>>, <<>>),
   status |-> Get(taskData, "status", "", "todo"),
   priority |-> Get(taskData, "priority", "", "medium"),
   dueDate |-> Null,
   tags |-> IF "tags" \in DOMAIN taskData /\ IsArray(taskData.tags)
            THEN taskData.tags ELSE <<>>,
   createdAt |-> t,
   updatedAt |-> t]

\* the task object of create; null, undefined and '' of a text field are
\* all falsy for ||, and a field that is null or undefined is left out of
\* taskData (dueDate can also be Null)
NewTask(taskData, id, t) ==
  [id |-> id,
   title |-> taskData.title,
   description |-> Get(taskData, "description", <<>>, <<>>),
   status |-> Get(taskData, "status", "", "todo"),
   priority |-> Get(taskData, "priority", "", "medium"),
   dueDate |-> Get(taskData, "dueDate", Null, Null),
   tags |-> IF "tags" \in DOMAIN taskData /\ IsArray(taskData.tags)
            THEN taskData.tags ELSE <<>>,
   createdAt |-> t,
   updatedAt |-> t]

\* async create(taskData)
create(taskData) ==
  LET task == NewTask(taskData, nextId, now)
  IN /\ Budget
     /\ SetRepo(AddTask(This, task))
     /\ nextId' = nextId + 1
     /\ ret' = IF AddThrows(This, task) THEN TypeError ELSE task
     /\ lastOp' = [op |-> "create", id |-> task.id]
     /\ resultAlias' = IF AddThrows(This, task) THEN 0 ELSE task.id
     /\ UNCHANGED <<client, now, inputAlias, pc, pending>>

\* findById without the test for a missing record: { ...undefined } is {}
EmptyObject == [empty |-> TRUE]
findByIdNoNullTest(id) ==
  /\ ret' = IF TasksHas(tasks, id) THEN TasksGet(tasks, id) ELSE EmptyObject
  /\ lastOp' = [op |-> "findById", id |-> id]
  /\ resultAlias' = IF TasksHas(tasks, id) THEN id ELSE 0
  /\ UNCHANGED <<client, store, now, nextId, inputAlias, pc, pending, steps>>

\* task ? { ...task } : null for task = m.get(id)
Lookup(m, id) == IF TasksHas(m, id) THEN TasksGet(m, id) ELSE NotFound

\* async findById(id)
findById(id) ==
  /\ ret' = Lookup(tasks, id)
  /\ lastOp' = [op |-> "findById", id |-> id]
  /\ resultAlias' = IF TasksHas(tasks, id) THEN id ELSE 0
  /\ UNCHANGED <<client, store, now, nextId, inputAlias, pc, pending, steps>>

\* findAll that sorts the stored records themselves, not copies of them
findAllSortsStore(filters) ==
  LET result == FindAll(This, filters, now)
  IN /\ ret' = result
     /\ lastOp' = [op |-> "findAll", id |-> 0]
     /\ resultAlias' = IF Len(result.tasks) > 0 THEN result.tasks[1].id ELSE 0
     /\ tasks' = SortTasks(tasks, filters)
     /\ UNCHANGED <<client, tasksByStatus, tasksByPriority, tasksByTag,
                    now, nextId, inputAlias, pc, pending, steps>>

\* async findAll(filters)
findAll(filters) ==
  LET result == FindAll(This, filters, now)
  IN /\ ret' = result
     /\ lastOp' = [op |-> "findAll", id |-> 0]
     /\ resultAlias' = IF Len(result.tasks) > 0 THEN result.tasks[1].id ELSE 0
     /\ UNCHANGED <<client, store, now, nextId, inputAlias, pc, pending, steps>>

\* async getStats()
getStats ==
  /\ ret' = GetStats(This, now)
  /\ lastOp' = [op |-> "getStats", id |-> 0]
  /\ resultAlias' = 0
  /\ UNCHANGED <<client, store, now, nextId, inputAlias, pc, pending, steps>>

\* { ...existingTask, ...updates, updatedAt }: id and createdAt not pinned
MergedTakesAll(existingTask, updates, id, t) ==
  [f \in DOMAIN existingTask \cup DOMAIN updates |->
     IF f = "updatedAt" THEN t
     ELSE IF f \in DOMAIN updates THEN updates[f]
     ELSE existingTask[f]]

\* { ...existingTask, ...updates, id, createdAt }: updatedAt not refreshed
MergedKeepsUpdatedAt(existingTask, updates, id, t) ==
  [f \in DOMAIN existingTask \cup DOMAIN updates |->
     IF f = "id" THEN id
     ELSE IF f = "createdAt" THEN existingTask.createdAt
     ELSE IF f \in DOMAIN updates THEN updates[f]
     ELSE existingTask[f]]

\* { ...existingTask, ...updates, id, createdAt, updatedAt }
Merged(existingTask, updates, id, t) ==
  [f \in DOMAIN existingTask \cup DOMAIN updates |->
     IF f = "id" THEN id
     ELSE IF f = "createdAt" THEN existingTask.createdAt
     ELSE IF f = "updatedAt" THEN t
     ELSE IF f \in DOMAIN updates THEN updates[f]
     ELSE existingTask[f]]

\* update, lines 459-462: the id names no record
updateNotFound(id) ==
  /\ ret' = NotFound
  /\ lastOp' = [op |-> "update", id |-> id]
  /\ resultAlias' = 0
  /\ UNCHANGED <<client, store, now, nextId, inputAlias, pc, pending, steps>>

\* async update(id, updates)
update(id, updates) ==
  IF ~TasksHas(tasks, id)
  THEN updateNotFound(id)
  ELSE LET existingTask == TasksGet(tasks, id)
           updatedTask == Merged(existingTask, updates, id, now)
           threw == UpdateThrows(This, existingTask, updatedTask)
       IN /\ Budget
          /\ SetRepo(UpdateTask(This, existingTask, updatedTask))
          /\ ret' = IF threw THEN TypeError ELSE updatedTask
          /\ lastOp' = [op |-> "update", id |-> id]
          /\ resultAlias' = IF threw THEN 0 ELSE id
          /\ inputAlias' = IF "tags" \in DOMAIN updates /\ ~RemoveThrows(This, existingTask)
                           THEN id ELSE inputAlias
          /\ UNCHANGED <<client, now, nextId, pc, pending>>

\* update up to the end of this._removeTask(oldTask) in _updateTask
updateRemove(id, updates) ==
  IF ~TasksHas(tasks, id)
  THEN updateNotFound(id)
  ELSE LET existingTask == TasksGet(tasks, id)
           updatedTask == Merged(existingTask, updates, id, now)
       IN /\ Budget
          /\ SetRepo(RemoveTask(This, existingTask))
          /\ pc' = "updating"
          /\ pending' = [id |-> id, task |-> updatedTask,
                         tagged |-> "tags" \in DOMAIN updates]
          /\ lastOp' = [op |-> "update", id |-> id]
          /\ UNCHANGED <<client, now, nextId, ret, resultAlias, inputAlias>>

\* update from this._addTask(newTask) in _updateTask to its return
updateAdd ==
  /\ pc = "updating"
  /\ SetRepo(AddTask(This, pending.task))
  /\ ret' = pending.task
  /\ resultAlias' = pending.id
  /\ inputAlias' = IF pending.tagged THEN pending.id ELSE inputAlias
  /\ pc' = "idle"
  /\ pending' = NoPending
  /\ UNCHANGED <<client, now, nextId, lastOp, steps>>

\* async delete(id)
delete(id) ==
  IF ~TasksHas(tasks, id)
  THEN /\ ret' = NotFound
       /\ lastOp' = [op |-> "delete", id |-> id]
       /\ resultAlias' = 0
       /\ UNCHANGED <<client, store, now, nextId, inputAlias, pc, pending, steps>>
  ELSE LET task == TasksGet(tasks, id)
       IN /\ Budget
          /\ SetRepo(RemoveTask(This, task))
          /\ ret' = IF RemoveThrows(This, task) THEN TypeError ELSE task
          /\ lastOp' = [op |-> "delete", id |-> id]
          /\ resultAlias' = 0
          /\ inputAlias' = IF inputAlias = id THEN 0 ELSE inputAlias
          /\ UNCHANGED <<client, now, nextId, pc, pending>>

\* clear that empties the primary table and forgets the tag index
clearKeepsTags ==
  /\ Budget
  /\ SetRepo([tasks |-> <<>>,
              tasksByStatus |-> [s \in DOMAIN tasksByStatus |-> <<>>],
              tasksByPriority |-> [p \in DOMAIN tasksByPriority |-> <<>>],
              tasksByTag |-> tasksByTag])
  /\ ret' = NotFound
  /\ lastOp' = [op |-> "clear", id |-> 0]
  /\ resultAlias' = 0
  /\ inputAlias' = 0
  /\ UNCHANGED <<client, now, nextId, pc, pending>>

\* async clear()
clear ==
  /\ Budget
  /\ SetRepo([tasks |-> <<>>,
              tasksByStatus |-> [s \in DOMAIN tasksByStatus |-> <<>>],
              tasksByPriority |-> [p \in DOMAIN tasksByPriority |-> <<>>],
              tasksByTag |-> <<>>])
  /\ ret' = NotFound
  /\ lastOp' = [op |-> "clear", id |-> 0]
  /\ resultAlias' = 0
  /\ inputAlias' = 0
  /\ UNCHANGED <<client, now, nextId, pc, pending>>

\* the clock behind new Date() and Date.now() moves on
Tick ==
  /\ Budget
  /\ now' = now + Day
  /\ lastOp' = [op |-> "tick", id |-> 0]
  /\ UNCHANGED <<client, store, nextId, ret, resultAlias, inputAlias, pc, pending>>

Create == CallStackEmpty /\ \E taskData \in CreateInputs : create(taskData)
FindById == CallStackEmpty /\ \E id \in ReadIds : findById(id)
Update == CallStackEmpty /\ \E id \in Ids, updates \in UpdateInputs : update(id, updates)
Delete == CallStackEmpty /\ \E id \in Ids : delete(id)
Clear == CallStackEmpty /\ clear
FindAllTasks == CallStackEmpty /\ \E filters \in ReadFilters : findAll(filters)
Stats == CallStackEmpty /\ getStats

Next == Create \/ FindById \/ FindAllTasks \/ Stats \/ Update \/ Delete \/ Clear \/ Tick

Spec == Init /\ [][Next]_vars

(* ---------------- update in its two steps ------------------------------- *)

UpdateRemove == CallStackEmpty /\ \E id \in Ids, updates \in UpdateInputs : updateRemove(id, updates)
UpdateAdd == updateAdd

StepsNext ==
  \/ Create \/ FindById \/ FindAllTasks \/ Stats \/ Delete \/ Clear \/ Tick
  \/ UpdateRemove \/ UpdateAdd

SpecSteps == Init /\ [][StepsNext]_vars

(* ---------------- callers that write to what they hold ------------------ *)

\* the record object the caller received last: the result of create,
\* findById, update or delete, or the first record of a findAll page
HoldsRecord ==
  \/ "id" \in DOMAIN ret
  \/ "tasks" \in DOMAIN ret /\ Len(ret.tasks) > 0
HeldRecord == IF "tasks" \in DOMAIN ret THEN ret.tasks[1] ELSE ret
WithHeld(rec) == IF "tasks" \in DOMAIN ret THEN [ret EXCEPT !.tasks[1] = rec] ELSE rec

Reverse(s) == [i \in 1..Len(s) |-> s[Len(s) + 1 - i]]

\* push, truncation and reverse on a tags array
TagWrites(tags) == { Append(tags, "extra"), <<>>, Reverse(tags) } \ {tags}

\* writing through a reference to the tags array of stored record id
WriteTags(m, id, newTags) ==
  [i \in 1..Len(m) |-> IF m[i].id = id THEN [m[i] EXCEPT !.tags = newTags] ELSE m[i]]

\* held.tags.push(...), held.tags.length = 0, held.tags.reverse()
MutateResultTags ==
  /\ CallStackEmpty
  /\ HoldsRecord
  /\ Budget
  /\ \E newTags \in TagWrites(HeldRecord.tags) :
       /\ ret' = WithHeld([HeldRecord EXCEPT !.tags = newTags])
       /\ tasks' = IF resultAlias # 0 THEN WriteTags(tasks, resultAlias, newTags) ELSE tasks
  /\ lastOp' = [op |-> "mutateResultTags", id |-> resultAlias]
  /\ UNCHANGED <<client, tasksByStatus, tasksByPriority, tasksByTag, now, nextId,
                 resultAlias, inputAlias, pc, pending>>

\* held.title = 'Modified Title'
MutateResultField ==
  /\ CallStackEmpty
  /\ HoldsRecord
  /\ Budget
  /\ ret' = WithHeld([HeldRecord EXCEPT !.title = <<"M","o","d">>, !.status = "completed"])
  /\ lastOp' = [op |-> "mutateResultField", id |-> resultAlias]
  /\ UNCHANGED <<client, store, now, nextId, resultAlias, inputAlias, pc, pending>>

\* updates.tags.push(...) and the like after update(id, updates) has returned
MutateInputTags ==
  /\ CallStackEmpty
  /\ inputAlias # 0
  /\ Budget
  /\ \E newTags \in TagWrites(TasksGet(tasks, inputAlias).tags) :
       /\ tasks' = WriteTags(tasks, inputAlias, newTags)
       /\ ret' = IF resultAlias = inputAlias /\ HoldsRecord
                 THEN WithHeld([HeldRecord EXCEPT !.tags = newTags])
                 ELSE ret
  /\ lastOp' = [op |-> "mutateInputTags", id |-> inputAlias]
  /\ UNCHANGED <<client, tasksByStatus, tasksByPriority, tasksByTag, now, nextId,
                 resultAlias, inputAlias, pc, pending>>

\* taskData.tags.push(...) after create(taskData) has returned
MutateCreateInput ==
  /\ CallStackEmpty
  /\ lastOp.op = "create"
  /\ Budget
  /\ lastOp' = [op |-> "mutateCreateInput", id |-> lastOp.id]
  /\ UNCHANGED <<client, store, now, nextId, ret, resultAlias, inputAlias, pc, pending>>

AliasNext == Next \/ MutateResultTags \/ MutateResultField \/ MutateInputTags \/ MutateCreateInput

SpecAlias == Init /\ [][AliasNext]_vars

(* ---------------- callers that pass data nobody has validated ----------- *)

\* a status and a priority outside the enums, tags that is a string
InvalidCreateInputs ==
  { [title |-> <<"B","a","d">>, status |-> "archived"],
    [title |-> <<"B","a","d">>, priority |-> "critical", tags |-> <<"api">>],
    [title |-> <<"B","a","d">>, tags |-> NotAnArray] }

InvalidUpdateInputs ==
  { [status |-> "archived"], [priority |-> "critical"], [tags |-> NotAnArray] }

CreateInvalid == CallStackEmpty /\ \E taskData \in InvalidCreateInputs : create(taskData)
UpdateInvalid ==
  CallStackEmpty /\ \E id \in Ids, updates \in InvalidUpdateInputs : update(id, updates)

InvalidNext == Next \/ CreateInvalid \/ UpdateInvalid

SpecInvalid == Init /\ [][InvalidNext]_vars

\* C11: a create or an update that fails with an error leaves the primary
\* table and the three indexes exactly as they were before the call.
C11_FailedCallLeavesStore ==
  [][(lastOp'.op \in {"create", "update"} /\ ret' = TypeError) => UNCHANGED store]_vars

(* ---------------- the fields an update may and may not change ---------- *)

\* partial fields that name id, createdAt and updatedAt themselves
ForgedUpdateInputs ==
  { [id |-> 99, createdAt |-> 9 * Day, updatedAt |-> 0,
     description |-> <<"F","o","r","g","e","d">>] }

UpdateForged ==
  CallStackEmpty /\ \E id \in Ids, updates \in ForgedUpdateInputs : update(id, updates)

\* taskData with description: null and dueDate: null
SparseCreateInputs ==
  { [title |-> <<"N","u","l">>, description |-> <<>>, dueDate |-> Null] }

CreateSparse == CallStackEmpty /\ \E taskData \in SparseCreateInputs : create(taskData)

\* taskData of a record that is completed and whose dueDate has passed
DoneCreateInputs ==
  { [title |-> <<"O","l","d">>, status |-> "completed", dueDate |-> Day] }

CreateDone == CallStackEmpty /\ \E taskData \in DoneCreateInputs : create(taskData)

FieldsNext == Next \/ UpdateForged \/ CreateSparse \/ CreateDone

SpecFields == Init /\ [][FieldsNext]_vars

PinnedFields == {"id", "createdAt", "updatedAt"}

\* what update(id, updates) has to leave behind for the record old
UpdatePost(id, updates, old) ==
  /\ TasksHas(tasks', id)
  /\ \A new \in { TasksGet(tasks', id) } :
       /\ ret' = new
       /\ new.id = old.id
       /\ new.createdAt = old.createdAt
       /\ DOMAIN new = DOMAIN old
       /\ \A f \in DOMAIN old \ (DOMAIN updates \cup {"updatedAt"}) : new[f] = old[f]
       /\ \A f \in DOMAIN updates \ PinnedFields : new[f] = updates[f]
  /\ Len(tasks') = Len(tasks)

\* C12: after a successful update(id, partialFields) the stored and the
\* returned record have the id and the createdAt the record had before, also
\* when partialFields names id, createdAt or updatedAt; a field that is not
\* named keeps its value and every other named field has the submitted value.
C12_UpdateFrame ==
  [][lastOp'.op = "update" =>
       \A id \in {lastOp'.id}, updates \in UpdateInputs \cup ForgedUpdateInputs :
         (TasksHas(tasks, id) /\ update(id, updates))
           => UpdatePost(id, updates, TasksGet(tasks, id))]_vars

\* sample record 2 was updated with partial fields that name id and createdAt
C12_Witness ==
  /\ lastOp = [op |-> "update", id |-> 2]
  /\ TasksHas(tasks, 2)
  /\ ret = TasksGet(tasks, 2)
  /\ ret.description = <<"F","o","r","g","e","d">>
  /\ ret.createdAt = now - 2 * Day
  /\ ret.updatedAt = now
  /\ now = 4 * Day

(* ---------------- timestamps -------------------------------------------- *)

Failures == {NotFound, TypeError}

\* C13: the updatedAt a successful update returns differs from the one the
\* record had before the update and is not earlier.
C13_UpdatedAtRefreshed ==
  [][(lastOp'.op = "update" /\ ret' \notin Failures)
       => /\ ret'.updatedAt # TasksGet(tasks, lastOp'.id).updatedAt
          /\ ret'.updatedAt >= TasksGet(tasks, lastOp'.id).updatedAt]_vars

\* C14: every live record has createdAt <= updatedAt.
C14_CreatedBeforeUpdated ==
  \A t \in SeqToSet(tasks) : t.createdAt <= t.updatedAt

\* sample record 3, created and updated at construction, was updated a day
\* later
C14_Witness ==
  /\ lastOp = [op |-> "update", id |-> 3]
  /\ TasksHas(tasks, 3)
  /\ TasksGet(tasks, 3).createdAt = 3 * Day
  /\ TasksGet(tasks, 3).updatedAt = 4 * Day

(* ---------------- create and read back ---------------------------------- *)

\* field f of x, or its default when x leaves it out or holds null
Submitted(x, f, default) == IF f \in DOMAIN x THEN x[f] ELSE default

\* what create(x) has to return and leave behind
CreatePost(x) ==
  \A found \in { Lookup(tasks', lastOp'.id) } :
    /\ found # NotFound
    /\ ret' = found
    /\ ~TasksHas(tasks, found.id)
    /\ found.title = x.title
    /\ found.description = Submitted(x, "description", <<>>)
    /\ found.status = Submitted(x, "status", "todo")
    /\ found.priority = Submitted(x, "priority", "medium")
    /\ found.dueDate = Submitted(x, "dueDate", Null)
    /\ found.tags = Submitted(x, "tags", <<>>)
    /\ found.createdAt = now /\ found.updatedAt = now

\* C15: findById of the id create(x) returned gives the record create
\* returned: the fields of x, the default for every field x leaves out or
\* holds as null, a new id, and createdAt and updatedAt.
C15_CreateRoundTrip ==
  [][lastOp'.op = "create" =>
       \A x \in CreateInputs \cup SparseCreateInputs : create(x) => CreatePost(x)]_vars

\* a record was created from a title alone and got every default
C15_Witness ==
  /\ lastOp.op = "create"
  /\ ret = Lookup(tasks, lastOp.id)
  /\ ret # NotFound
  /\ ret.title = <<"N","e","w">>
  /\ ret.description = <<>> /\ ret.status = "todo" /\ ret.priority = "medium"
  /\ ret.dueDate = Null /\ ret.tags = <<>>

(* ---------------- index consistency ------------------------------------- *)

LiveTasks == SeqToSet(tasks)
LiveIds == { t.id : t \in LiveTasks }
NoDuplicates(s) == \A i, j \in 1..Len(s) : s[i] = s[j] => i = j
KnownTags ==
  { tasksByTag[i].tag : i \in 1..Len(tasksByTag) }
    \cup UNION { SeqToSet(t.tags) : t \in LiveTasks }
    \cup {"api", "urgent", "setup"}
BucketIds ==
  UNION { SeqToSet(tasksByStatus[s]) : s \in Statuses }
    \cup UNION { SeqToSet(tasksByPriority[p]) : p \in Priorities }

TagBucket(tag) == IF TagHas(tasksByTag, tag) THEN SeqToSet(TagGet(tasksByTag, tag)) ELSE {}

\* C1: every status, priority and tag bucket holds exactly the ids of the
\* live records that have that status, that priority or that tag, so a live
\* record is in one status and one priority bucket and no bucket holds the id
\* of a record that is not live.
C1_IndexConsistency ==
  /\ NoDuplicates(TaskKeys(tasks))
  /\ \A s \in Statuses :
       /\ NoDuplicates(tasksByStatus[s])
       /\ SeqToSet(tasksByStatus[s]) = { t.id : t \in { u \in LiveTasks : u.status = s } }
  /\ \A p \in Priorities :
       /\ NoDuplicates(tasksByPriority[p])
       /\ SeqToSet(tasksByPriority[p]) = { t.id : t \in { u \in LiveTasks : u.priority = p } }
  /\ NoDuplicates([i \in 1..Len(tasksByTag) |-> tasksByTag[i].tag])
  /\ \A tag \in KnownTags :
       TagBucket(tag) = { t.id : t \in { u \in LiveTasks : Has(u.tags, tag) } }
  /\ \A id \in LiveIds :
       /\ Cardinality({ s \in Statuses : Has(tasksByStatus[s], id) }) = 1
       /\ Cardinality({ p \in Priorities : Has(tasksByPriority[p], id) }) = 1

\* an update has moved sample record 3 from the todo to the completed bucket
C1_Witness ==
  /\ lastOp = [op |-> "update", id |-> 3]
  /\ ret # NotFound
  /\ ret.status = "completed"
  /\ Has(tasksByStatus["completed"], 3)
  /\ ~Has(tasksByStatus["todo"], 3)
  /\ steps = MaxSteps

(* ---------------- filter correctness ------------------------------------ *)

\* s contains t when letter case is ignored
ContainsIgnoreCase(s, t) ==
  \E k \in 0..(Len(s) - Len(t)) : \A i \in 1..Len(t) : LowerChar(s[k + i]) = LowerChar(t[i])

\* task satisfies every predicate that is present in filters
Satisfies(task, filters) ==
  /\ filters.status # "" => task.status = filters.status
  /\ filters.priority # "" => task.priority = filters.priority
  /\ \A tag \in SeqToSet(filters.tags) : tag \in SeqToSet(task.tags)
  /\ filters.search # <<>> =>
       \/ ContainsIgnoreCase(task.title, filters.search)
       \/ ContainsIgnoreCase(task.description, filters.search)
  /\ filters.overdue =>
       /\ task.dueDate # Null
       /\ task.dueDate < now
       /\ task.status # "completed"

FilterSpace ==
  { [NoFilters EXCEPT !.status = s, !.priority = p, !.tags = tg, !.search = q, !.overdue = o] :
      s \in {"", "completed", "archived"}, p \in {"", "high"},
      tg \in {<<>>, <<"api">>, <<"urgent", "api">>},
      q \in {<<>>, <<"I","M">>}, o \in BOOLEAN }

TagFilterLists ==
  { <<"api">>, <<"urgent">>, <<"urgent", "api">>, <<"api", "backend">>,
    <<"nosuch", "api">>, <<"api", "nosuch">> }

Carriers(tag) == { t \in LiveTasks : Has(t.tags, tag) }

TagQuery(tg) == FindAll(This, [NoFilters EXCEPT !.tags = tg], now)

\* C6: findAll with tags t1..tn returns exactly the live records that carry
\* every ti, and when some ti is carried by no live record the result is
\* empty with total 0 and hasMore false.
C6_TagAndSemantics ==
  \A tg \in TagFilterLists :
    \A res \in { TagQuery(tg) } :
      /\ SeqToSet(res.tasks) = { t \in LiveTasks : \A tag \in SeqToSet(tg) : Has(t.tags, tag) }
      /\ NoDuplicates(res.tasks)
      /\ res.pagination.total = Len(res.tasks)
      /\ (\E tag \in SeqToSet(tg) : Carriers(tag) = {}) =>
           /\ res.tasks = <<>>
           /\ res.pagination.total = 0
           /\ res.pagination.hasMore = FALSE

\* two records carry api, one of them also urgent, and none carries nosuch
C6_Witness ==
  /\ lastOp.op = "create"
  /\ Cardinality(Carriers("api")) = 2
  /\ Len(TagQuery(<<"urgent", "api">>).tasks) = 1
  /\ TagQuery(<<"api", "nosuch">>).pagination.total = 0

(* ---------------- pagination -------------------------------------------- *)

PagedFilters ==
  { NoFilters,
    [NoFilters EXCEPT !.sortBy = "dueDate", !.sortOrder = "asc"],
    [NoFilters EXCEPT !.tags = <<"api">>, !.sortBy = "priority", !.sortOrder = "desc"] }

PageLimits == {1, 2, MaxLimit}

PageAt(filters, limit, offset) ==
  FindAll(This, [filters EXCEPT !.limit = Num(limit), !.offset = Num(offset)], now)

\* the pages at offset, offset + limit, ... up to the first without hasMore
RECURSIVE Pages(_, _, _)
Pages(filters, limit, offset) ==
  IF offset > MaxLimit THEN <<>>
  ELSE PageAt(filters, limit, offset).tasks
         \o (IF PageAt(filters, limit, offset).pagination.hasMore
             THEN Pages(filters, limit, offset + limit)
             ELSE <<>>)

\* C7: for a limit in 1..100 the pages at offsets 0, limit, 2*limit, ... up
\* to the first page without hasMore, put one behind the other, hold every
\* filtered record once, in the sorted order.
C7_PaginationLaw ==
  \A filters \in PagedFilters, limit \in PageLimits :
    \A all \in { Pages(filters, limit, 0) } :
      /\ SeqToSet(all) = { t \in LiveTasks : Satisfies(t, filters) }
      /\ NoDuplicates(all)
      /\ \A i, j \in 1..Len(all) : i < j => Compare(all[i], all[j], filters) <= 0
      /\ all = SortTasks(Filtered(This, filters, now), filters)

\* five records are read in pages of two: two full pages and a last one
C7_Witness ==
  /\ Len(tasks) = 5
  /\ PageAt(NoFilters, 2, 2).pagination.hasMore
  /\ Len(PageAt(NoFilters, 2, 4).tasks) = 1
  /\ ~PageAt(NoFilters, 2, 4).pagination.hasMore

PagingInputs == { Absent, Text, Num(0), Num(0 - 1), Num(2), Num(MaxLimit), Num(MaxLimit + 1) }

\* C8: whatever limit and offset are given, the limit findAll uses and
\* reports lies in 1..100 (50 when absent), the offset is at least 0 (0 when
\* absent), the page holds at most limit records, and both values are the
\* ones parsePagination computes.
C8_LimitOffsetClamped ==
  \A l \in PagingInputs, o \in PagingInputs :
    \A res \in { FindAll(This, [NoFilters EXCEPT !.limit = l, !.offset = o], now) } :
      /\ res.pagination.limit \in 1..MaxLimit
      /\ l = Absent => res.pagination.limit = DefaultLimit
      /\ res.pagination.offset >= 0
      /\ o = Absent => res.pagination.offset = 0
      /\ Len(res.tasks) <= res.pagination.limit
      /\ res.pagination.limit = parsePagination([limit |-> l, offset |-> o]).limit
      /\ res.pagination.offset = parsePagination([limit |-> l, offset |-> o]).offset

\* C9: total is the number of records after filtering, hasMore is true
\* exactly when offset + limit < total, an offset at or beyond total gives an
\* empty page without hasMore, and so does an empty filter result.
C9_TotalAndHasMore ==
  \A tg \in {<<>>, <<"nosuch">>}, l \in PagingInputs, o \in {Absent, Num(1), Num(3), Num(1000)} :
    \A filters \in { [NoFilters EXCEPT !.tags = tg, !.limit = l, !.offset = o] } :
      \A res \in { FindAll(This, filters, now) } :
        /\ res.pagination.total = Cardinality({ t \in LiveTasks : Satisfies(t, filters) })
        /\ res.pagination.hasMore =
             (res.pagination.offset + res.pagination.limit < res.pagination.total)
        /\ res.pagination.offset >= res.pagination.total =>
             res.tasks = <<>> /\ ~res.pagination.hasMore
        /\ res.pagination.total = 0 =>
             res.tasks = <<>> /\ ~res.pagination.hasMore

(* ---------------- not found --------------------------------------------- *)

ByIdOps == {"findById", "update", "delete"}

\* C10: findById, update and delete with an id that names no live record
\* return null and leave the primary table and every index as they were.
C10_NotFoundIsNull ==
  [][(lastOp'.op \in ByIdOps /\ ~TasksHas(tasks, lastOp'.id))
       => (ret' = NotFound /\ UNCHANGED store)]_vars

\* update was called with the id of a record that had been deleted
C10_Witness ==
  /\ lastOp = [op |-> "update", id |-> 1]
  /\ ~TasksHas(tasks, 1)
  /\ ret = NotFound
  /\ Len(tasks) = 2

(* ---------------- pruning of tag buckets --------------------------------- *)

TagOnly(tag) == [NoFilters EXCEPT !.tags = <<tag>>]

\* C16: no tag bucket is empty and a tag has a bucket exactly when a live
\* record carries it; for a tag nobody carries findAll finds nothing, and
\* getStats counts exactly the tags that are carried.
C16_NoEmptyTagBucket ==
  /\ \A i \in 1..Len(tasksByTag) : Len(tasksByTag[i].ids) > 0
  /\ \A tag \in KnownTags :
       /\ TagHas(tasksByTag, tag) <=> Carriers(tag) # {}
       /\ Carriers(tag) = {} =>
            /\ FindAll(This, TagOnly(tag), now).tasks = <<>>
            /\ FindAll(This, TagOnly(tag), now).pagination.total = 0
  /\ GetStats(This, now).tags.total = Cardinality({ tag \in KnownTags : Carriers(tag) # {} })

\* record 2, the only one with backend, was retagged: the bucket is gone
C16_Witness ==
  /\ lastOp = [op |-> "update", id |-> 2]
  /\ TasksHas(tasks, 2)
  /\ ~Has(TasksGet(tasks, 2).tags, "backend")
  /\ ~TagHas(tasksByTag, "backend")
  /\ TagHas(tasksByTag, "urgent")
  /\ TagHas(tasksByTag, "api")

(* ---------------- delete ------------------------------------------------ *)

\* the ids uuidv4 has handed out so far
IssuedIds == 1..(nextId - 1)

TagBucketIds == UNION { SeqToSet(tasksByTag[i].ids) : i \in 1..Len(tasksByTag) }

\* no table, bucket or query knows id
Gone(id) ==
  /\ Lookup(tasks, id) = NotFound
  /\ id \notin BucketIds \cup TagBucketIds
  /\ \A t \in SeqToSet(Filtered(This, NoFilters, now)) : t.id # id

\* C17: a successful delete returns the record as it was stored; from then
\* on the id stays unknown: findById, delete and update of it return null
\* and no findAll result holds a record with that id.
C17_DeletedStaysGone ==
  [][/\ lastOp'.op = "delete" =>
          \A id \in {lastOp'.id} :
            (TasksHas(tasks, id) /\ delete(id)) => (ret' = TasksGet(tasks, id) /\ Gone(id)')
     /\ \A id \in IssuedIds :
          ~TasksHas(tasks, id) =>
            /\ Gone(id)'
            /\ (lastOp'.op \in ByIdOps /\ lastOp'.id = id) => ret' = NotFound
            /\ lastOp'.op = "findAll" => \A t \in SeqToSet(ret'.tasks) : t.id # id]_vars

\* record 1 was deleted and then deleted once more
C17_Witness ==
  /\ lastOp = [op |-> "delete", id |-> 1]
  /\ ret = NotFound
  /\ Gone(1)
  /\ Len(tasks) = 2
  /\ steps = 1

(* ---------------- clear ------------------------------------------------- *)

Emptied ==
  /\ tasks = <<>>
  /\ \A s \in Statuses : tasksByStatus[s] = <<>>
  /\ \A p \in Priorities : tasksByPriority[p] = <<>>
  /\ tasksByTag = <<>>
  /\ FindAll(This, NoFilters, now).pagination.total = 0
  /\ GetStats(This, now).total = 0
  /\ GetStats(This, now).tags.total = 0

\* none of the sample records is left: so it is in every state after a
\* clear, since an id is never handed out twice
SamplesGone == \A id \in 1..Len(SampleTasks(now)) : ~TasksHas(tasks, id)

SortOrders == {"undefined", "asc", "desc", "invalidOrder"}

\* all records in one page
AllSorted(sortBy, sortOrder) ==
  FindAll(This, [NoFilters EXCEPT !.sortBy = sortBy, !.sortOrder = sortOrder,
                                  !.limit = Num(MaxLimit)], now).tasks

\* C19: with a sortBy that names no field of a record, and any sortOrder,
\* findAll returns the records in the order it uses without sortBy:
\* updatedAt descending.
C19_InvalidSortByIsDefault ==
  \A sortOrder \in SortOrders :
    /\ AllSorted("invalidField", sortOrder) = AllSorted("", "undefined")
    /\ \A res \in { AllSorted("invalidField", sortOrder) } :
         \A i, j \in 1..Len(res) : i < j => res[i].updatedAt >= res[j].updatedAt

\* C20: sorted by dueDate, the records without a dueDate come after all
\* others when sortOrder is asc and before all others when it is desc, and
\* the records with a dueDate are in ascending or descending order of it.
C20_NullsLastAscFirstDesc ==
  /\ \A sortOrder \in {"undefined", "asc"} :
       \A res \in { AllSorted("dueDate", sortOrder) } :
         /\ Len(res) = Len(tasks)
         /\ \A i, j \in 1..Len(res) : i < j =>
              /\ res[i].dueDate = Null => res[j].dueDate = Null
              /\ (res[i].dueDate # Null /\ res[j].dueDate # Null)
                   => res[i].dueDate <= res[j].dueDate
  /\ \A res \in { AllSorted("dueDate", "desc") } :
       /\ Len(res) = Len(tasks)
       /\ \A i, j \in 1..Len(res) : i < j =>
            /\ res[j].dueDate = Null => res[i].dueDate = Null
            /\ (res[i].dueDate # Null /\ res[j].dueDate # Null)
                 => res[i].dueDate >= res[j].dueDate

\* a record without dueDate was created last and sorts behind the three
\* samples in ascending and before them in descending order
C20_Witness ==
  /\ lastOp.op = "create"
  /\ Len(tasks) = 4
  /\ tasks[4].dueDate = Null
  /\ AllSorted("dueDate", "asc")[4].id = tasks[4].id
  /\ AllSorted("dueDate", "desc")[1].id = tasks[4].id
  /\ AllSorted("dueDate", "asc")[1].dueDate < AllSorted("dueDate", "asc")[3].dueDate

\* the rank of a priority: low, then medium, then high
PriorityRank(p) == CASE p = "low" -> 1 [] p = "medium" -> 2 [] p = "high" -> 3 [] OTHER -> 4

\* C21: sorted by priority, the records come in the order low, medium, high
\* for asc and high, medium, low for desc.
C21_PrioritySortByRank ==
  /\ \A res \in { AllSorted("priority", "asc") } :
       \A i, j \in 1..Len(res) : i < j =>
         PriorityRank(res[i].priority) <= PriorityRank(res[j].priority)
  /\ \A res \in { AllSorted("priority", "desc") } :
       \A i, j \in 1..Len(res) : i < j =>
         PriorityRank(res[i].priority) >= PriorityRank(res[j].priority)

(* ---------------- statistics -------------------------------------------- *)

Stats_ == GetStats(This, now)

CarriedTags == UNION { SeqToSet(t.tags) : t \in LiveTasks }

\* C22: getStats reports the number of live records as total, the number of
\* live records of each status and of each priority, both groups summing to
\* total, and the number of distinct tags live records carry as tags.total.
C22_StatsCounts ==
  \A st \in { Stats_ } :
    /\ st.total = Cardinality(LiveIds)
    /\ DOMAIN st.byStatus = Statuses
    /\ DOMAIN st.byPriority = Priorities
    /\ \A s \in Statuses : st.byStatus[s] = Cardinality({ t \in LiveTasks : t.status = s })
    /\ \A p \in Priorities : st.byPriority[p] = Cardinality({ t \in LiveTasks : t.priority = p })
    /\ st.byStatus["todo"] + st.byStatus["in_progress"] + st.byStatus["completed"] = st.total
    /\ st.byPriority["low"] + st.byPriority["medium"] + st.byPriority["high"] = st.total
    /\ st.tags.total = Cardinality(CarriedTags)

\* a fourth record with the tags urgent and api was created: seven tags
C22_Witness ==
  /\ lastOp.op = "create"
  /\ Stats_.total = 4
  /\ Stats_.byPriority["high"] = 3
  /\ Stats_.byStatus["todo"] = 2
  /\ Stats_.tags.total = 7

OverdueOf(this, at) == GetStats(this, at).overdue

StatsOverdue == OverdueOf(This, now)

PastDueAt(task, at) == task.dueDate # Null /\ task.dueDate < at

PastDue(task) == PastDueAt(task, now)

\* the overdue count agrees with the records and with the overdue filter
OverdueCounted(this, at) ==
  /\ OverdueOf(this, at) =
       Cardinality({ t \in SeqToSet(this.tasks) :
                      PastDueAt(t, at) /\ t.status # "completed" })
  /\ OverdueOf(this, at) =
       FindAll(this, [NoFilters EXCEPT !.overdue = TRUE], at).pagination.total

\* C23: getStats().overdue is the number of live records with a dueDate
\* before now and a status other than completed, and the total of
\* findAll({overdue: true}); an update that completes an overdue record
\* lowers it by one, a create of a completed record with a past dueDate
\* leaves it as it is.
C23_OverdueCount ==
  /\ OverdueCounted(This, now)
  /\ [][OverdueCounted(This', now')]_vars
  /\ [][(/\ lastOp'.op = "update" /\ ret' \notin Failures
          /\ IsOverdue(TasksGet(tasks, lastOp'.id), now)
          /\ ret'.status = "completed")
           => OverdueOf(This', now') = OverdueOf(This, now) - 1]_vars
  /\ [][(/\ lastOp'.op = "create" /\ ret' \notin Failures
          /\ ret'.status = "completed" /\ PastDueAt(ret', now'))
           => OverdueOf(This', now') = OverdueOf(This, now)]_vars

\* record 4 was created overdue and has been completed by an update
C23_Witness ==
  /\ lastOp = [op |-> "update", id |-> 4]
  /\ ret \notin Failures
  /\ ret.status = "completed"
  /\ PastDue(ret)
  /\ StatsOverdue = 0

PopularOf(this, at) == GetStats(this, at).tags.popular

\* the place of a tag in the tag index
TagPosition(this, tag) ==
  CHOOSE i \in 1..Len(this.tasksByTag) : this.tasksByTag[i].tag = tag

\* the place of a tag in a popular list, 0 when it is not listed
Listed(pop, tag) ==
  IF \E i \in 1..Len(pop) : pop[i].tag = tag
  THEN CHOOSE i \in 1..Len(pop) : pop[i].tag = tag
  ELSE 0

\* the popular list holds the right entries with the right counts, in
\* non-increasing order of count and, for equal counts, in the order of the
\* tag index
PopularListed(this, at) ==
  LET pop == PopularOf(this, at)
      live == SeqToSet(this.tasks)
      carried == UNION { SeqToSet(t.tags) : t \in live }
      count(tag) == Cardinality({ t \in live : Has(t.tags, tag) })
  IN /\ Len(pop) = Min(PopularLimit, Cardinality(carried))
     /\ \A i \in 1..Len(pop) :
          /\ pop[i].tag \in carried
          /\ pop[i].count = count(pop[i].tag)
     /\ \A i, j \in 1..Len(pop) : i < j =>
          /\ pop[i].tag # pop[j].tag
          /\ pop[i].count >= pop[j].count
          /\ (pop[i].count = pop[j].count
                => TagPosition(this, pop[i].tag) < TagPosition(this, pop[j].tag))
     /\ \A tag \in carried \ { pop[i].tag : i \in 1..Len(pop) } :
          \A i \in 1..Len(pop) : count(tag) <= pop[i].count

\* an accepted update that left the tags of its record as they were
TagsKept ==
  /\ lastOp'.op = "update"
  /\ ret' \notin Failures
  /\ ret'.tags = TasksGet(tasks, lastOp'.id).tags

\* two tags listed with equal counts before and after a step are listed in
\* the same order
TiesKeepOrder(before, after) ==
  \A i, j \in 1..Len(after) :
    (/\ i < j
     /\ after[i].count = after[j].count
     /\ Listed(before, after[i].tag) > 0
     /\ Listed(before, after[j].tag) > 0)
      => Listed(before, after[i].tag) < Listed(before, after[j].tag)

\* C24: tags.popular holds at most five entries, each with the number of
\* live records that carry the tag, in non-increasing order of count; no
\* tag left out has a larger count than a listed one; tags with equal
\* counts come in the order in which they were first seen, an order that
\* an update which shows no new tag cannot change.
C24_PopularTags ==
  /\ PopularListed(This, now)
  /\ [][PopularListed(This', now')]_vars
  /\ [][TagsKept => TiesKeepOrder(PopularOf(This, now), PopularOf(This', now'))]_vars

(* ---------------- the tag index under updates --------------------------- *)

\* C27: an update that does not change the tags of its record leaves the
\* tag index as it was, the order of its buckets included, and
\* getStats().tags.popular returns the same list in the same order.
C27_TagIndexKept ==
  [][TagsKept => /\ tasksByTag' = tasksByTag
                 /\ PopularOf(This', now') = PopularOf(This, now)]_vars

(* ---------------- reads ------------------------------------------------- *)

\* C25: findById, findAll and getStats leave the primary table, every
\* stored record and every index bucket as they were.
C25_ReadsChangeNothing ==
  [][lastOp'.op \in {"findById", "findAll", "getStats"} => UNCHANGED store]_vars

\* findAll returned a page of two records of a store that had been changed
C25_Witness ==
  /\ lastOp.op = "findAll"
  /\ Len(ret.tasks) = 2
  /\ steps = MaxSteps

(* ---------------- atomicity of update ----------------------------------- *)

ReadOps == {"findById", "findAll", "getStats"}

\* id is in the primary table, in one status and in one priority bucket
IndexedOnce(id) ==
  /\ TasksHas(tasks, id)
  /\ Cardinality({ s \in Statuses : Has(tasksByStatus[s], id) }) = 1
  /\ Cardinality({ p \in Priorities : Has(tasksByPriority[p], id) }) = 1

\* C2: a findById, findAll or getStats never runs between the removal and
\* the insertion steps of update: in the state it reads, no update is half
\* done and every record, the updated one included, is in the primary table
\* and in exactly one status and one priority bucket.
C2_UpdateIsAtomic ==
  [][lastOp'.op \in ReadOps =>
       /\ pc = "idle"
       /\ pending = NoPending
       /\ \A id \in LiveIds \cup BucketIds : IndexedOnce(id)]_vars

\* update is between its two steps: the record is in no table and no bucket
C2_Witness ==
  /\ pc = "updating"
  /\ ~TasksHas(tasks, pending.id)
  /\ pending.id \notin BucketIds
  /\ pending.task.status = "completed"

(* ---------------- copies handed to and taken from callers --------------- *)

\* C3: writing to a record returned by create, findById, findAll, update or
\* delete, to a scalar field or to its tags, changes neither the stored
\* records nor any index bucket.
C3_ReturnedRecordIsACopy ==
  [][lastOp'.op \in {"mutateResultTags", "mutateResultField"} => UNCHANGED store]_vars

\* C4: writing to the object given to create or to update after the call
\* has returned changes neither the stored records nor any index bucket.
C4_StoredInputIsACopy ==
  [][lastOp'.op \in {"mutateInputTags", "mutateCreateInput"} => UNCHANGED store]_vars

(* ---------------- HTTP handlers ----------------------------------------- *)

\* new APIError(message, statusCode, details)
APIError(statusCode) == [error |-> "APIError", statusCode |-> statusCode]

\* handleAPIError(res, error, requestId): the error is the response
handleAPIError(method, statusCode) ==
  /\ ret' = APIError(statusCode)
  /\ lastOp' = [op |-> method, id |-> 0]
  /\ resultAlias' = 0
  /\ UNCHANGED <<client, store, now, nextId, inputAlias, pc, pending, steps>>

RECURSIVE trimStart(_)
trimStart(s) == IF s # <<>> /\ Head(s) = " " THEN trimStart(Tail(s)) ELSE s

RECURSIVE trimEnd(_)
trimEnd(s) ==
  IF s # <<>> /\ s[Len(s)] = " " THEN trimEnd(SubSeq(s, 1, Len(s) - 1)) ELSE s

\* String.prototype.trim, and .trim() of a Joi string with convert: true
trim(s) == trimEnd(trimStart(s))

\* String.prototype.toLowerCase on a tag: the tags of the model are spelled
\* in lower case but for Urgent and API
tagToLowerCase(tag) ==
  CASE tag = "Urgent" -> "urgent"
    [] tag = "API" -> "api"
    [] OTHER -> tag

\* taskSchemas.create accepts the body: a title that is not empty once
\* trimmed, a dueDate that is null or not before now
CreateAccepted(body, t) ==
  /\ Len(trim(body.title)) >= 1
  /\ "dueDate" \in DOMAIN body => (body.dueDate = Null \/ body.dueDate >= t)

\* the value of validateCreateTask(req): title trimmed, defaults filled in;
\* a tag is kept in the letter case it came in (its trim changes no tag of
\* the model, none of which holds a blank)
validateCreateTask(body) ==
  LET defaults == [status |-> "todo", priority |-> "medium", tags |-> <<>>]
  IN [f \in DOMAIN body \cup DOMAIN defaults |->
        IF f \notin DOMAIN body THEN defaults[f]
        ELSE IF f = "title" THEN trim(body[f])
        ELSE body[f]]

\* process.env.PREVENT_DUPLICATE_TITLES === 'true'
PreventDuplicateTitles == TRUE

\* performBusinessValidation(taskData, repository) throws its 409
performBusinessValidation(taskData, r, t) ==
  /\ PreventDuplicateTitles
  /\ LET existingTasks ==
           FindAll(r, [NoFilters EXCEPT !.search = taskData.title, !.limit = Num(1)], t)
     IN \E i \in 1..Len(existingTasks.tasks) :
          toLowerCase(existingTasks.tasks[i].title) = toLowerCase(taskData.title)

\* POST /api/tasks
handleCreateTask(body) ==
  IF ~CreateAccepted(body, now) THEN handleAPIError("POST", 400)
  ELSE IF performBusinessValidation(validateCreateTask(body), This, now)
       THEN handleAPIError("POST", 409)
       ELSE create(validateCreateTask(body))

\* taskSchemas.filters accepts the query: limit absent or from 1 to 100
FiltersAccepted(query) ==
  query.limit = Absent \/ (query.limit.kind = "num" /\ query.limit.val \in 1..MaxLimit)

\* the value of validateTaskFilters(req): the defaults of the schema, and
\* the entries of the comma-separated tags in lower case
validateTaskFilters(query) ==
  [NoFilters EXCEPT
     !.tags = [i \in 1..Len(query.tags) |-> tagToLowerCase(query.tags[i])],
     !.sortBy = "updatedAt",
     !.sortOrder = "desc",
     !.limit = IF query.limit = Absent THEN Num(DefaultLimit) ELSE query.limit,
     !.offset = Num(0)]

\* GET /api/tasks
handleGetTasks(query) ==
  IF ~FiltersAccepted(query) THEN handleAPIError("GET", 400)
  ELSE findAll(validateTaskFilters(query))

\* the value of validateUpdateTask(req): title trimmed
validateUpdateTask(body) ==
  [f \in DOMAIN body |-> IF f = "title" THEN trim(body[f]) ELSE body[f]]

validTransitions ==
  [todo |-> {"in_progress", "completed"},
   in_progress |-> {"todo", "completed"},
   completed |-> {"todo", "in_progress"}]

\* the status code performUpdateBusinessValidation throws, 0 when it returns
performUpdateBusinessValidation(existingTask, updates, r, t) ==
  IF /\ existingTask.status = "completed"
     /\ "status" \in DOMAIN updates
     /\ updates.status # "completed"
     /\ t - existingTask.updatedAt > Day
  THEN 400
  ELSE IF /\ "status" \in DOMAIN updates
          /\ updates.status # existingTask.status
          /\ updates.status \notin validTransitions[existingTask.status]
  THEN 400
  ELSE IF /\ "title" \in DOMAIN updates
          /\ toLowerCase(updates.title) # toLowerCase(existingTask.title)
          /\ PreventDuplicateTitles
          /\ LET existingTasks ==
                   FindAll(r, [NoFilters EXCEPT !.search = updates.title,
                                                !.limit = Num(5)], t)
             IN \E i \in 1..Len(existingTasks.tasks) :
                  /\ existingTasks.tasks[i].id # existingTask.id
                  /\ toLowerCase(existingTasks.tasks[i].title) = toLowerCase(updates.title)
  THEN 409
  ELSE IF /\ "dueDate" \in DOMAIN updates
          /\ updates.dueDate # Null
          /\ updates.dueDate < t
          /\ existingTask.status # "completed"
  THEN 400
  ELSE 0

\* PUT /api/tasks/[id]
handleUpdateTask(id, body) ==
  LET validatedUpdates == validateUpdateTask(body)
      existingTask == Lookup(tasks, id)
  IN IF existingTask = NotFound THEN handleAPIError("PUT", 404)
     ELSE LET thrown == performUpdateBusinessValidation(existingTask, validatedUpdates,
                                                        This, now)
          IN IF thrown # 0 THEN handleAPIError("PUT", thrown)
             ELSE update(id, validatedUpdates)

\* request bodies of POST: a tag with a capital, a blank title, and the
\* title of record 1 in lower case with a blank behind it
PostBodies ==
  { [title |-> <<"S","e","t","u","p">>, tags |-> <<"Urgent">>],
    [title |-> <<" ">>],
    [title |-> <<"s","e","t"," ">>, priority |-> "low"] }

\* query strings of GET
GetQueries ==
  { [tags |-> <<"Urgent">>, limit |-> Absent],
    [tags |-> <<"api">>, limit |-> Num(0)] }

\* request bodies of PUT
PutBodies ==
  { [title |-> <<"F","i","x"," ">>],
    [status |-> "todo"],
    [status |-> "completed", dueDate |-> Null] }

PostTask == CallStackEmpty /\ \E body \in PostBodies : handleCreateTask(body)
GetTasks == CallStackEmpty /\ \E query \in GetQueries : handleGetTasks(query)
PutTask == CallStackEmpty /\ \E id \in {1, nextId}, body \in PutBodies : handleUpdateTask(id, body)

HttpNext == PostTask \/ GetTasks \/ PutTask \/ Tick

SpecHttp == Init /\ [][HttpNext]_vars

(* ---------------- tags in POST and in GET ------------------------------- *)

\* the ids of the tasks GET /api/tasks?tags=tag answers with
TaggedBy(tag) ==
  LET result == FindAll(This, validateTaskFilters([tags |-> <<tag>>, limit |-> Absent]), now)
  IN { result.tasks[i].id : i \in 1..Len(result.tasks) }

\* C26: a task created through POST /api/tasks with a tag written in any
\* letter case is among the tasks of GET /api/tasks?tags= that tag.
C26_TagsNormalizedEndToEnd ==
  (lastOp.op = "create" /\ ret \notin Failures)
    => \A i \in 1..Len(ret.tags) : ret.id \in TaggedBy(ret.tags[i])

(* ---------------- reopening a completed task ---------------------------- *)

\* the sample records that are completed and were last written more than
\* 24 hours before the repository was constructed
LongCompleted ==
  { task.id : task \in { t \in SeqToSet(SampleTasks(3 * Day)) :
                           t.status = "completed" /\ 3 * Day - t.updatedAt > Day } }

\* C28: through PUT /api/tasks/[id] a task completed more than 24 hours ago
\* never goes back to todo or in_progress, whatever accepted updates of its
\* other fields come before the request.
C28_NoReopeningAfterADay ==
  \A task \in LiveTasks : task.id \in LongCompleted => task.status = "completed"

(* ---------------- duplicate titles -------------------------------------- *)

setTasks(data) == [type |-> "SET_TASKS", payload |-> data]
addTask(task) == [type |-> "ADD_TASK", payload |-> task]
deleteTask(id) == [type |-> "DELETE_TASK", payload |-> id]
setSelectedTask(task) == [type |-> "SET_SELECTED_TASK", payload |-> task]
setError(error) == [type |-> "SET_ERROR", payload |-> error]

\* state.selectedTask?.id === id
SelectedIs(state, id) ==
  state.selectedTask # NotFound /\ state.selectedTask.id = id

\* function taskReducer(state, action)
taskReducer(state, action) ==
  CASE action.type = "SET_TASKS" ->
         [state EXCEPT !.tasks = action.payload.tasks,
                       !.pagination = action.payload.pagination,
                       !.error = NoError]
    [] action.type = "ADD_TASK" ->
         [state EXCEPT !.tasks = <<action.payload>> \o state.tasks,
                       !.pagination.total = state.pagination.total + 1]
    [] action.type = "DELETE_TASK" ->
         [state EXCEPT !.tasks = SelectSeq(state.tasks,
                                           LAMBDA task : task.id # action.payload),
                       !.pagination.total = Max(0, state.pagination.total - 1),
                       !.selectedTask = IF SelectedIs(state, action.payload)
                                        THEN NotFound ELSE state.selectedTask]
    [] action.type = "SET_SELECTED_TASK" ->
         [state EXCEPT !.selectedTask = action.payload]
    [] action.type = "SET_ERROR" ->
         [state EXCEPT !.error = action.payload]

\* state.tasks.find(task => task.id === id), undefined as NotFound
Find(ts, id) ==
  IF \E i \in 1..Len(ts) : ts[i].id = id
  THEN ts[CHOOSE i \in 1..Len(ts) : ts[i].id = id /\ \A j \in 1..(i - 1) : ts[j].id # id]
  ELSE NotFound

\* what the claim compares: the task list, pagination.total and selectedTask
Shown(state) ==
  [tasks |-> state.tasks, total |-> state.pagination.total,
   selectedTask |-> state.selectedTask]

ClientStep(op, id) ==
  /\ lastOp' = [op |-> op, id |-> id]
  /\ UNCHANGED <<store, now, nextId, ret, resultAlias, inputAlias, pc, pending, steps>>

\* loadTasks(): the answer of GET /api/tasks arrives and is dispatched
loadTasks ==
  /\ client' = [client EXCEPT !.state =
       taskReducer(client.state,
                   setTasks(FindAll(This, validateTaskFilters([tags |-> <<>>, limit |-> Absent]),
                                    now)))]
  /\ ClientStep("loadTasks", 0)

\* dispatch(taskActions.setSelectedTask(task)) for a task of the list or null
selectTask(task) ==
  /\ client' = [client EXCEPT !.state = taskReducer(client.state, setSelectedTask(task))]
  /\ ClientStep("selectTask", 0)

\* deleteTask(id) up to the call of api.deleteTask: the optimistic removal;
\* before is the state the call started from, kept for the comparison
deleteTaskStart(id) ==
  /\ client.started < MaxCalls
  /\ client' = [state |-> taskReducer(client.state, deleteTask(id)),
                calls |-> client.calls \cup
                            { [id |-> id, taskToDelete |-> Find(client.state.tasks, id),
                               before |-> Shown(client.state)] },
                started |-> client.started + 1]
  /\ ClientStep("deleteTask", id)

\* onError of api.deleteTask: the optimistic removal is taken back
deleteTaskFailed(call) ==
  /\ client' = [client EXCEPT
       !.state = taskReducer(IF call.taskToDelete # NotFound
                             THEN taskReducer(client.state, addTask(call.taskToDelete))
                             ELSE client.state,
                             setError(DeleteError)),
       !.calls = client.calls \ {call}]
  /\ ClientStep("deleteFailed", call.id)

\* api.deleteTask answers with success: the server has deleted the task
deleteTaskDone(call) ==
  /\ TasksHas(tasks, call.id)
  /\ SetRepo(RemoveTask(This, TasksGet(tasks, call.id)))
  /\ client' = [client EXCEPT !.calls = client.calls \ {call}]
  /\ lastOp' = [op |-> "deleteDone", id |-> call.id]
  /\ UNCHANGED <<now, nextId, ret, resultAlias, inputAlias, pc, pending, steps>>

LoadTasks == CallStackEmpty /\ loadTasks
SelectTask == CallStackEmpty /\ \E task \in SeqToSet(client.state.tasks) \cup {NotFound} : selectTask(task)
DeleteTaskStart == CallStackEmpty /\ \E id \in 1..3 : deleteTaskStart(id)
DeleteTaskFailed == CallStackEmpty /\ \E call \in client.calls : deleteTaskFailed(call)
DeleteTaskDone == CallStackEmpty /\ \E call \in client.calls : deleteTaskDone(call)

ClientNext == LoadTasks \/ SelectTask \/ DeleteTaskStart \/ DeleteTaskFailed \/ DeleteTaskDone

SpecClient == Init /\ [][ClientNext]_vars

\* C30: when the API call of deleteTask(id) fails, the client state is what
\* it was before deleteTask was called: the same tasks in the same order,
\* the same pagination.total and the same selectedTask.
C30_DeleteRolledBack ==
  [][\A call \in client.calls :
       (lastOp'.op = "deleteFailed" /\ call \notin client'.calls)
         => Shown(client'.state) = call.before]_vars

====
